---- MODULE Spec2Model ----
(***************************************************************************)
(* ExcelStorm: the App component (record store, header list) and the       *)
(* VirtualizedDataTable component (filter -> sort -> paginate, selection,  *)
(* row CRUD) of react_excelstorm, as a state machine.                      *)
(*                                                                         *)
(* Every action is one event handler followed by the React render and the  *)
(* two useEffect callbacks of the table, run until nothing changes, so a   *)
(* state of the model is a settled state of the application.               *)
(***************************************************************************)
EXTENDS Integers, Sequences, FiniteSets, TLC

(***************************************************************************)
(* Bounds of the model.                                                    *)
(***************************************************************************)
\* rows of an uploaded file, and length the record store may grow to
MaxRows == 1
\* Date.now() returns values from 0 to MaxTime milliseconds
MaxTime == 1
\* Math.random() yields one of the fractions 0..MaxFrac
MaxFrac == 1
\* rows of the collections the sort stage is applied to in isolation
MaxViewRows == 3
\* rows of the collections the filter stage is applied to in isolation
MaxFilterRows == 2
\* length of the projections the pagination window is applied to in isolation
MaxPagingLen == 101
\* rows of the collection that fills several pages, the first LargeMatches of
\* them with a bank code the filter text matches
LargeRows == 21
LargeMatches == 11
\* rows from the top of the visible page whose checkbox the user toggles
MaxToggle == 1

(***************************************************************************)
(* JavaScript values of a cell: a string (sequence of one-character         *)
(* strings), a non-negative integer number, or undefined.                  *)
(***************************************************************************)
Str(s) == [t |-> "str", s |-> s, n |-> 0]
Num(n) == [t |-> "num", s |-> <<>>, n |-> n]
Undefined == [t |-> "undef", s |-> <<>>, n |-> 0]

Digits == <<"0", "1", "2", "3", "4", "5", "6", "7", "8", "9">>
Letters == <<"a", "b", "k", "x">>
Punctuation == <<"/">>
Capitals == <<"A", "B", "K", "X">>

IndexOf(seq, c) == IF \E i \in 1..Len(seq) : seq[i] = c
                   THEN CHOOSE i \in 1..Len(seq) : seq[i] = c
                   ELSE 0

IsDigit(c) == IndexOf(Digits, c) > 0

\* String.prototype.toLowerCase, character by character
LowerChar(c) == IF IndexOf(Capitals, c) > 0 THEN Letters[IndexOf(Capitals, c)] ELSE c
ToLowerCase(s) == [i \in 1..Len(s) |-> LowerChar(s[i])]

\* String.prototype.includes
Includes(s, sub) ==
  \E i \in 0..(Len(s) - Len(sub)) : \A j \in 1..Len(sub) : s[i + j] = sub[j]

\* Number.prototype.toString (base 10), non-negative integers
RECURSIVE NumToString(_)
NumToString(n) == IF n < 10 THEN <<Digits[n + 1]>>
                  ELSE Append(NumToString(n \div 10), Digits[(n % 10) + 1])

\* String(v)
JsString(v) == CASE v.t = "str" -> v.s
                 [] v.t = "num" -> NumToString(v.n)
                 [] OTHER -> <<"u", "n", "d", "e", "f", "i", "n", "e", "d">>

\* v == null
IsNullish(v) == v.t = "undef"

\* the truthiness that || tests: undefined, 0 and '' are falsy
Truthy(v) == CASE v.t = "str" -> Len(v.s) > 0
               [] v.t = "num" -> v.n # 0
               [] OTHER -> FALSE

\* a || b
OrElse(a, b) == IF Truthy(a) THEN a ELSE b

\* Number(s) of a string of decimal digits ('' is 0)
RECURSIVE DigitsToNum(_)
DigitsToNum(s) == IF Len(s) = 0 THEN 0
                  ELSE 10 * DigitsToNum(SubSeq(s, 1, Len(s) - 1))
                       + (IndexOf(Digits, s[Len(s)]) - 1)

\* isNaN(v): Number(v) is NaN. Number(undefined) is NaN, Number('') is 0.
IsNaN(v) == CASE v.t = "num" -> FALSE
              [] v.t = "str" -> \E i \in 1..Len(v.s) : ~IsDigit(v.s[i])
              [] OTHER -> TRUE

\* Number(v), for a v with ~IsNaN(v)
ToNumber(v) == IF v.t = "num" THEN v.n ELSE DigitsToNum(v.s)

\* collation rank of a lower-case character: punctuation, digits, letters
CharRank(c) == IF IndexOf(Punctuation, c) > 0 THEN IndexOf(Punctuation, c)
               ELSE IF IsDigit(c) THEN Len(Punctuation) + IndexOf(Digits, c)
               ELSE Len(Punctuation) + Len(Digits) + IndexOf(Letters, c)

\* String.prototype.localeCompare on lower-cased strings of digits and letters
RECURSIVE LocaleCompare(_, _)
LocaleCompare(a, b) ==
  IF Len(a) = 0 THEN (IF Len(b) = 0 THEN 0 ELSE -1)
  ELSE IF Len(b) = 0 THEN 1
  ELSE IF CharRank(a[1]) < CharRank(b[1]) THEN -1
  ELSE IF CharRank(a[1]) > CharRank(b[1]) THEN 1
  ELSE LocaleCompare(Tail(a), Tail(b))

Ceil(a, b) == (a + b - 1) \div b
Min(a, b) == IF a < b THEN a ELSE b
Max(a, b) == IF a > b THEN a ELSE b

Reverse(s) == [i \in 1..Len(s) |-> s[Len(s) + 1 - i]]

(***************************************************************************)
(* Program constants.                                                      *)
(***************************************************************************)
\* the target column set, in the order the record literal declares it
HEADERS == <<"CHALLAN_NO", "A_BANCD", "A_BANKL", "CHALL_DATE",
             "ACCOUNT_CODE", "CHAN_AMT", "NOTES">>
HeaderSet == {HEADERS[i] : i \in 1..Len(HEADERS)}

ITEMS_PER_PAGE_OPTIONS == {10, 25, 50, 100}
InitialItemsPerPage == 10

(***************************************************************************)
(* State.                                                                  *)
(***************************************************************************)
VARIABLES
  data,          \* App: the record store, a sequence of rows [id, cells]
  headers,       \* App: the header list handed to the table
  searchTerm,    \* table: the filter text
  sortConfig,    \* table: [key, direction], key "null" when no column is chosen
  selectedRows,  \* table: set of row ids
  currentPage,   \* table: 1-based page number
  itemsPerPage,  \* table: page size
  editingRow,    \* table: the row handed to the modal, or NoRow
  isModalOpen,   \* table: whether the modal is shown
  isNewRow,      \* table: modal in add mode
  formData,      \* EditRowModal: the row being typed
  stats,         \* App: NoStats, or [rowCount, columnCount, fileSize]
  loading,       \* App: an upload is being read and parsed
  error,         \* App: NoError, or the message shown
  fileName,      \* App: NoFileName, or [name] of the last file that parsed
  exported,      \* the last file handed to the browser: NoFile, or [filename, content]
  now            \* the latest value Date.now() returned, in milliseconds

vars == <<data, headers, searchTerm, sortConfig, selectedRows, currentPage,
          itemsPerPage, editingRow, isModalOpen, isNewRow, formData, stats,
          loading, error, fileName, exported, now>>

\* an id is a number: whole milliseconds plus a fraction k / (MaxFrac + 1)
Id(ms, frac) == [ms |-> ms, frac |-> frac]

\* editingRow = null
NoRow == [id |-> Id(0, 0), cells |-> [h \in {} |-> Undefined]]

NoKey == "null"

\* stats = null
NoStats == [isNull |-> TRUE]

\* error = null, fileName = null, and no download made yet
NoError == "null"
NoFileName == [isNull |-> TRUE]
NoFile == [isNull |-> TRUE]

\* the App state no table handler writes
appShell == <<loading, error, fileName, exported>>

(***************************************************************************)
(* View pipeline: filteredData, sortedData, pagination.                    *)
(***************************************************************************)
\* headers.some(header => String(row[header] || '').toLowerCase()
\*                          .includes(searchTerm.toLowerCase()))
RowMatches(row, hs, term) ==
  \E i \in 1..Len(hs) :
    Includes(ToLowerCase(JsString(OrElse(row.cells[hs[i]], Str(<<>>)))),
             ToLowerCase(term))

\* filteredData()
FilteredData(d, hs, term) ==
  IF Len(term) = 0 THEN d
  ELSE LET Keep(row) == RowMatches(row, hs, term) IN SelectSeq(d, Keep)

Sign(x) == IF x < 0 THEN -1 ELSE IF x > 0 THEN 1 ELSE 0

\* A comparator that ignores the direction: what the sort would be if both
\* branches compared (a, b). The reversal property tells it from Compare.
CompareAscending(a, b, cfg) ==
  LET aValue == a.cells[cfg.key]
      bValue == b.cells[cfg.key]
  IN IF IsNullish(aValue) THEN 1
     ELSE IF IsNullish(bValue) THEN -1
     ELSE IF ~IsNaN(aValue) /\ ~IsNaN(bValue)
       THEN ToNumber(aValue) - ToNumber(bValue)
     ELSE LocaleCompare(ToLowerCase(JsString(aValue)), ToLowerCase(JsString(bValue)))

\* A comparator that never compares numerically: what the sort would be
\* without the isNaN branch. The sort properties tell it from Compare.
CompareAsStrings(a, b, cfg) ==
  LET aValue == a.cells[cfg.key]
      bValue == b.cells[cfg.key]
  IN IF IsNullish(aValue) THEN 1
     ELSE IF IsNullish(bValue) THEN -1
     ELSE LET strA == ToLowerCase(JsString(aValue))
              strB == ToLowerCase(JsString(bValue))
          IN IF cfg.direction = "asc" THEN LocaleCompare(strA, strB)
             ELSE LocaleCompare(strB, strA)

\* the comparator handed to Array.prototype.sort
Compare(a, b, cfg) ==
  LET aValue == a.cells[cfg.key]
      bValue == b.cells[cfg.key]
  IN IF IsNullish(aValue) THEN 1
     ELSE IF IsNullish(bValue) THEN -1
     ELSE IF ~IsNaN(aValue) /\ ~IsNaN(bValue)
       THEN (IF cfg.direction = "asc"
               THEN ToNumber(aValue) - ToNumber(bValue)
               ELSE ToNumber(bValue) - ToNumber(aValue))
     ELSE LET strA == ToLowerCase(JsString(aValue))
              strB == ToLowerCase(JsString(bValue))
          IN IF cfg.direction = "asc" THEN LocaleCompare(strA, strB)
             ELSE LocaleCompare(strB, strA)

(***************************************************************************)
(* Array.prototype.sort with a comparator. The order the comparator is     *)
(* called in is the engine's, and the comparator above answers 1 both ways *)
(* for two missing values, so the result can depend on the engine. Two     *)
(* engines are modelled, both as they treat arrays too short to be merged: *)
(*   "V8": the leading run is found (a strictly descending one is          *)
(*         reversed), the remaining elements are placed by binary          *)
(*         insertion, comparing (element placed, element in place);        *)
(*   "SpiderMonkey": linear insertion from the right, comparing            *)
(*         (element in place, element placed).                             *)
(* Indices are 0-based in the V8 operators as in the engine; s[i + 1] is   *)
(* the element at index i.                                                 *)
(***************************************************************************)
Engines == {"V8", "SpiderMonkey"}

\* whether an element comparing as order to the one before it ends the run
RunEnds(isDescending, order) == IF isDescending THEN order >= 0 ELSE order < 0

RECURSIVE RunLength(_, _, _, _)
RunLength(s, cfg, isDescending, len) ==
  IF len >= Len(s) THEN len
  ELSE IF RunEnds(isDescending, Compare(s[len + 1], s[len], cfg)) THEN len
  ELSE RunLength(s, cfg, isDescending, len + 1)

RECURSIVE BinarySearch(_, _, _, _, _)
BinarySearch(s, pivot, left, right, cfg) ==
  IF left < right
    THEN LET mid == left + ((right - left) \div 2)
             order == Compare(pivot, s[mid + 1], cfg)
         IN IF order < 0 THEN BinarySearch(s, pivot, left, mid, cfg)
            ELSE BinarySearch(s, pivot, mid + 1, right, cfg)
    ELSE left

\* s with the element at index start moved to index left
MovedTo(s, start, left) ==
  SubSeq(s, 1, left) \o <<s[start + 1]>> \o SubSeq(s, left + 1, start)
  \o SubSeq(s, start + 2, Len(s))

RECURSIVE BinaryInsertionSort(_, _, _)
BinaryInsertionSort(s, start, cfg) ==
  IF start >= Len(s) THEN s
  ELSE BinaryInsertionSort(
         MovedTo(s, start, BinarySearch(s, s[start + 1], 0, start, cfg)),
         start + 1, cfg)

\* the run s[0 .. runLength - 1] made ascending
MadeRun(s, isDescending, runLength) ==
  IF isDescending
    THEN Reverse(SubSeq(s, 1, runLength)) \o SubSeq(s, runLength + 1, Len(s))
    ELSE s

SortAfterRun(s, cfg, isDescending, runLength) ==
  BinaryInsertionSort(MadeRun(s, isDescending, runLength), runLength, cfg)

CountRunAndSort(s, cfg, isDescending) ==
  SortAfterRun(s, cfg, isDescending, RunLength(s, cfg, isDescending, 2))

RunThenBinaryInsertion(s, cfg) ==
  CountRunAndSort(s, cfg, Compare(s[2], s[1], cfg) < 0)

\* the 1-based place of item among s[1..j], scanning from s[j] down
RECURSIVE InsertionPlace(_, _, _, _)
InsertionPlace(s, item, j, cfg) ==
  IF j < 1 THEN 1
  ELSE IF Compare(s[j], item, cfg) <= 0 THEN j + 1
  ELSE InsertionPlace(s, item, j - 1, cfg)

\* s with the element at place i moved down to place
PlacedAt(s, i, place) ==
  SubSeq(s, 1, place - 1) \o <<s[i]>> \o SubSeq(s, place, i - 1)
  \o SubSeq(s, i + 1, Len(s))

RECURSIVE LinearInsertionSort(_, _, _)
LinearInsertionSort(s, i, cfg) ==
  IF i > Len(s) THEN s
  ELSE LinearInsertionSort(PlacedAt(s, i, InsertionPlace(s, s[i], i - 1, cfg)),
                           i + 1, cfg)

ArraySort(s, cfg, engine) ==
  IF Len(s) < 2 THEN s
  ELSE IF engine = "V8" THEN RunThenBinaryInsertion(s, cfg)
  ELSE LinearInsertionSort(s, 2, cfg)

\* sortedData()
SortedData(filtered, cfg, engine) ==
  IF cfg.key = NoKey THEN filtered ELSE ArraySort(filtered, cfg, engine)

\* displayData of a render
DisplayData(d, hs, term, cfg, engine) ==
  SortedData(FilteredData(d, hs, term), cfg, engine)

\* the length of displayData is the same in every engine
AnyEngine == CHOOSE engine \in Engines : TRUE
DisplayLength(d, hs, term, cfg) == Len(DisplayData(d, hs, term, cfg, AnyEngine))

\* A page count that rounds down: what totalPages would be with Math.floor.
\* The pagination property tells it from TotalPages.
TotalPagesFloor(len, ipp) == len \div ipp

\* Math.ceil(displayData.length / itemsPerPage)
TotalPages(len, ipp) == Ceil(len, ipp)

\* Array.prototype.slice(start, end), 0 <= start <= end
Slice(s, start, end) == SubSeq(s, start + 1, Min(end, Len(s)))

\* paginatedData of a render
PaginatedData(display, page, ipp) ==
  LET startIndex == (page - 1) * ipp
      endIndex == startIndex + ipp
  IN Slice(display, startIndex, endIndex)

RowIds(rows) == {rows[i].id : i \in 1..Len(rows)}

(***************************************************************************)
(* Ingestion: parseExcelFile maps every raw row of the first sheet.        *)
(* A raw row gives a value, or undefined, for each source column.          *)
(***************************************************************************)
CHALLAN_NO_MAX == 11
NOTES_MAX == 255

\* String.prototype.substring(0, n)
Substring0(s, n) == SubSeq(s, 1, Min(n, Len(s)))

RawItem(bank, date, amount) ==
  [ChallanNumber |-> Undefined, BankCode |-> bank, BranchCode |-> Undefined,
   Date |-> date, AccountCode |-> Undefined, Amount |-> amount, Notes |-> Undefined]

\* rawData.map((item, index) => ({ id: Date.now() + index, ... }))
TransformItem(item, index, t) ==
  [id |-> Id(t + index, 0),
   cells |->
     [h \in HeaderSet |->
        CASE h = "CHALLAN_NO" ->
               Str(Substring0(JsString(OrElse(item.ChallanNumber, Str(<<>>))), CHALLAN_NO_MAX))
          [] h = "A_BANCD" -> OrElse(item.BankCode, Str(<<>>))
          [] h = "A_BANKL" -> OrElse(item.BranchCode, Str(<<>>))
          [] h = "CHALL_DATE" -> item.Date
          [] h = "ACCOUNT_CODE" -> OrElse(item.AccountCode, Str(<<>>))
          [] h = "CHAN_AMT" -> OrElse(item.Amount, Str(<<"0">>))
          [] OTHER ->
               Str(Substring0(JsString(OrElse(item.Notes, Str(<<>>))), NOTES_MAX))]]

TransformedData(rawData, t) ==
  [i \in 1..Len(rawData) |-> TransformItem(rawData[i], i - 1, t)]

\* Headers that keep the id key: what the parser would return without the
\* test h !== 'id'. The header-list property tells it from ParsedHeaders.
ParsedHeadersWithId(transformed) ==
  IF Len(transformed) = 0 THEN <<>> ELSE <<"id">> \o HEADERS

\* Object.keys(transformedData[0] || {}).filter(h => !h.startsWith('_') && h !== 'id')
ParsedHeaders(transformed) == IF Len(transformed) = 0 THEN <<>> ELSE HEADERS

(***************************************************************************)
(* Export. A text is the sequence of its characters; a column name and a   *)
(* file-name suffix stand in it for their characters.                      *)
(***************************************************************************)
\* Object.keys(row).filter(h => !h.startsWith('_') && h !== 'id'): every
\* record literal of the program declares its columns in the order of HEADERS
ExportKeys(row) ==
  LET Has(h) == h \in DOMAIN row.cells IN SelectSeq(HEADERS, Has)

\* Array.prototype.join: undefined gives the empty string, any other
\* element its String()
RECURSIVE Join(_, _)
Join(values, separator) ==
  IF Len(values) = 0 THEN <<>>
  ELSE IF Len(values) = 1
       THEN (IF IsNullish(values[1]) THEN <<>> ELSE JsString(values[1]))
  ELSE (IF IsNullish(values[1]) THEN <<>> ELSE JsString(values[1]))
         \o separator \o Join(Tail(values), separator)

\* Quotes left single: what the export would be without the replace call.
\* The property of the CSV text tells it from DoubleQuotes.
KeepQuotes(s) == s

\* value.replace(/"/g, '""')
RECURSIVE DoubleQuotes(_)
DoubleQuotes(s) ==
  IF Len(s) = 0 THEN <<>>
  ELSE (IF s[1] = "\"" THEN <<"\"", "\"">> ELSE <<s[1]>>) \o DoubleQuotes(Tail(s))

\* the callback of headers.map in exportDataAsCSV
CsvField(value) ==
  IF value.t = "str" /\ (Includes(value.s, <<",">>) \/ Includes(value.s, <<"\"">>))
  THEN Str(<<"\"">> \o DoubleQuotes(value.s) \o <<"\"">>)
  ELSE value

\* csvContent: the header line and one line per row, joined by '\n'
CsvContent(d) ==
  LET keys == ExportKeys(d[1])
      CellOf(row, header) ==
        IF header \in DOMAIN row.cells THEN row.cells[header] ELSE Undefined
      HeaderLine == Str(Join([j \in 1..Len(keys) |-> Str(<<keys[j]>>)], <<",">>))
      Line(row) ==
        Str(Join([j \in 1..Len(keys) |-> CsvField(CellOf(row, keys[j]))], <<",">>))
  IN Join(<<HeaderLine>> \o [i \in 1..Len(d) |-> Line(d[i])], <<"\n">>)

\* exportDataAsCSV(data, filename): an alert, or the download of a text file
ExportDataAsCSV(d, filename) ==
  IF Len(d) = 0 THEN [alert |-> "No data to export"]
  ELSE [filename |-> filename, content |-> CsvContent(d)]

\* the value exportDataAsExcel writes: a string that matches
\* /^\d{2}\/\d{2}\/\d{4}$/ (dd/mm/yyyy) becomes yyyy-mm-dd
ExcelValue(value) ==
  IF /\ value.t = "str"
     /\ Len(value.s) = 10
     /\ \A i \in 1..10 : IF i \in {3, 6} THEN value.s[i] = "/"
                         ELSE IsDigit(value.s[i])
  THEN Str(SubSeq(value.s, 7, 10) \o <<"-">> \o SubSeq(value.s, 4, 5)
             \o <<"-">> \o SubSeq(value.s, 1, 2))
  ELSE value

\* exportDataAsExcel(data, filename): an alert, or the download of a
\* workbook whose sheet holds exportData
ExportDataAsExcel(d, filename) ==
  IF Len(d) = 0 THEN [alert |-> "No data to export"]
  ELSE [filename |-> filename,
        sheet |-> [i \in 1..Len(d) |->
                     [h \in HeaderSet \cap DOMAIN d[i].cells |-> ExcelValue(d[i].cells[h])]]]

\* fileName ? `${fileName.split('.')[0]}${suffix}` : `excelstorm_export${ext}`
ExportFileName(name, suffix, fallback) ==
  IF name = NoFileName \/ Len(name.name) = 0 THEN <<fallback>>
  ELSE LET dots == {i \in 1..Len(name.name) : name.name[i] = "."}
           stem == IF dots = {} THEN name.name
                   ELSE SubSeq(name.name, 1,
                               (CHOOSE i \in dots : \A j \in dots : i <= j) - 1)
       IN stem \o <<suffix>>

\* createNewRow()
CreateNewRow(t, today) ==
  [id |-> Id(t, 0),
   cells |-> [h \in HeaderSet |->
                CASE h = "CHALL_DATE" -> Str(today)
                  [] h = "CHAN_AMT" -> Str(<<"0">>)
                  [] OTHER -> Str(<<>>)]]

(***************************************************************************)
(* The table's state as one value, and the render / effect cycle.          *)
(***************************************************************************)
Table ==
  [searchTerm |-> searchTerm, sortConfig |-> sortConfig,
   selectedRows |-> selectedRows, currentPage |-> currentPage,
   itemsPerPage |-> itemsPerPage, editingRow |-> editingRow,
   isModalOpen |-> isModalOpen, isNewRow |-> isNewRow, formData |-> formData]

\* the useState initial values of VirtualizedDataTable and EditRowModal
InitialTable ==
  [searchTerm |-> <<>>, sortConfig |-> [key |-> NoKey, direction |-> "asc"],
   selectedRows |-> {}, currentPage |-> 1,
   itemsPerPage |-> InitialItemsPerPage, editingRow |-> NoRow,
   isModalOpen |-> FALSE, isNewRow |-> FALSE, formData |-> NoRow]

\* App renders the table only while data.length > 0
Mounted(d) == Len(d) > 0

TotalPagesOf(d, hs, t) ==
  TotalPages(DisplayLength(d, hs, t.searchTerm, t.sortConfig), t.itemsPerPage)

\* One commit: the effects whose dependencies differ from the previous
\* render's run in declaration order, each reading the values of this
\* render; their state updates are applied in the order they were queued.
\*   useEffect(() => { setCurrentPage(1); setSelectedRows(new Set()) }, [searchTerm])
\*   useEffect(() => { if (currentPage > totalPages && totalPages > 0)
\*                       setCurrentPage(totalPages) }, [currentPage, totalPages])
\*   EditRowModal: useEffect(() => { if (row) setFormData(row) }, [row, isOpen])
\* Effects in which the page effect also clears the selection: what the
\* table would do if navigating dropped the selected ids. The property that
\* view changes keep the selection tells it from RunEffects.
RunEffectsClearingOnPage(first, prev, prevTotalPages, t, totalPages) ==
  LET searchChanged == first \/ t.searchTerm # prev.searchTerm
      pageDepsChanged == first \/ t.currentPage # prev.currentPage
                         \/ totalPages # prevTotalPages
      clamp == pageDepsChanged /\ t.currentPage > totalPages /\ totalPages > 0
      rowDepsChanged == first \/ t.editingRow # prev.editingRow
                        \/ t.isModalOpen # prev.isModalOpen
  IN [t EXCEPT
        !.currentPage = IF clamp THEN totalPages
                        ELSE IF searchChanged THEN 1 ELSE @,
        !.selectedRows = IF searchChanged \/ pageDepsChanged THEN {} ELSE @,
        !.formData = IF rowDepsChanged /\ t.editingRow # NoRow THEN t.editingRow ELSE @]

RunEffects(first, prev, prevTotalPages, t, totalPages) ==
  LET searchChanged == first \/ t.searchTerm # prev.searchTerm
      pageDepsChanged == first \/ t.currentPage # prev.currentPage
                         \/ totalPages # prevTotalPages
      clamp == pageDepsChanged /\ t.currentPage > totalPages /\ totalPages > 0
      rowDepsChanged == first \/ t.editingRow # prev.editingRow
                        \/ t.isModalOpen # prev.isModalOpen
  IN [t EXCEPT
        !.currentPage = IF clamp THEN totalPages
                        ELSE IF searchChanged THEN 1 ELSE @,
        !.selectedRows = IF searchChanged THEN {} ELSE @,
        !.formData = IF rowDepsChanged /\ t.editingRow # NoRow THEN t.editingRow ELSE @]

\* render and run the effects until a render queues no update
Settle(d, hs, t) ==
  LET first == ~Mounted(data)
      totalPages == TotalPagesOf(d, hs, t)
      t1 == RunEffects(first, Table, TotalPagesOf(data, headers, Table), t, totalPages)
      t2 == RunEffects(FALSE, t, totalPages, t1, totalPages)
  IN t2

\* A commit in which the table keeps its state while the store is empty:
\* what the application would do if the table stayed mounted without rows.
\* The property of the clear action tells it from Commit.
CommitKeepingTable(d, hs, t) ==
  \E s \in {Settle(d, hs, t)} :
     /\ data' = d
     /\ headers' = hs
     /\ searchTerm' = s.searchTerm
     /\ sortConfig' = s.sortConfig
     /\ selectedRows' = s.selectedRows
     /\ currentPage' = s.currentPage
     /\ itemsPerPage' = s.itemsPerPage
     /\ editingRow' = s.editingRow
     /\ isModalOpen' = s.isModalOpen
     /\ isNewRow' = s.isNewRow
     /\ formData' = s.formData

\* the state after a handler left the store as d and the table as t
Commit(d, hs, t) ==
  \E s \in {IF Mounted(d) THEN Settle(d, hs, t) ELSE InitialTable} :
     /\ data' = d
     /\ headers' = hs
     /\ searchTerm' = s.searchTerm
     /\ sortConfig' = s.sortConfig
     /\ selectedRows' = s.selectedRows
     /\ currentPage' = s.currentPage
     /\ itemsPerPage' = s.itemsPerPage
     /\ editingRow' = s.editingRow
     /\ isModalOpen' = s.isModalOpen
     /\ isNewRow' = s.isNewRow
     /\ formData' = s.formData

\* values of the current render, in a given engine
displayData(engine) == DisplayData(data, headers, searchTerm, sortConfig, engine)
totalPages == TotalPages(DisplayLength(data, headers, searchTerm, sortConfig), itemsPerPage)
paginatedData(engine) == PaginatedData(displayData(engine), currentPage, itemsPerPage)

\* the rows the page shows, in any engine
Elements(rows) == {rows[i] : i \in 1..Len(rows)}
VisibleRows == UNION {Elements(paginatedData(e)) : e \in Engines}

(***************************************************************************)
(* Inputs of the handlers.                                                 *)
(***************************************************************************)
\* the record store is not grown beyond MaxStore rows
MaxStore == 2

\* raw rows a file may hold
RawItems ==
  { RawItem(Str(<<"b">>), Undefined, Num(5)) }

SeqsUpTo(S, n) == UNION {[1..k -> S] : k \in 0..n}

Files == SeqsUpTo(RawItems, MaxRows)

\* file.size of the workbook, in bytes
FileSizes == {1600}

\* file.name of the workbook
FileNames == {<<"f", ".", "x">>}

\* the messages parseExcelFile resolves with when reading or parsing fails
ErrorMessages == {"Error reading file", "Error parsing Excel file"}

\* what the user types in the search box
SearchTerms == {<<>>, <<"B">>}

\* the column headers the user clicks
SortColumns == {"CHAN_AMT"}

\* the page sizes the user picks
PageSizeChoices == {10, 25}

\* what the user types in the modal, and where
EditFields == {"A_BANCD"}
EditValues == {<<"1", "0">>}

\* new Date().toLocaleDateString('en-GB')
Today == <<"0", "1", "/", "0", "2", "/", "2", "0", "2", "6">>

(***************************************************************************)
(* App handlers.                                                           *)
(***************************************************************************)
\* (file.size / 1024).toFixed(2): the size in KB, rounded to hundredths
ToFixed2(size) ==
  LET hundredths == (size * 100 + 512) \div 1024
      cents == hundredths % 100
  IN NumToString(hundredths \div 100)
       \o <<".">> \o <<Digits[(cents \div 10) + 1], Digits[(cents % 10) + 1]>>

\* setStats({rowCount: result.rowCount, columnCount: result.headers.length,
\*           fileSize: (file.size / 1024).toFixed(2)})
UploadStats(transformed, size) ==
  [rowCount |-> Len(transformed),
   columnCount |-> Len(ParsedHeaders(transformed)),
   fileSize |-> ToFixed2(size)]

\* handleFileUpload with a file that parses, when no other event comes
\* between the start of the upload and the parser's answer: setLoading(true),
\* setError(null); setHeaders, setData, setFileName, setStats; setLoading(false)
HandleFileUpload(rawData, size, t) ==
  LET transformed == TransformedData(rawData, t)
  IN /\ ~loading
     /\ Commit(transformed, ParsedHeaders(transformed), Table)
     /\ stats' = UploadStats(transformed, size)
     /\ error' = NoError
     /\ \E name \in FileNames : fileName' = [name |-> name]
     /\ UNCHANGED <<loading, exported>>
     /\ now' = t

\* handleFileUpload up to its await: setLoading(true), setError(null). The
\* file input is disabled while loading.
StartUpload ==
  /\ ~loading
  /\ Commit(data, headers, Table)
  /\ loading' = TRUE
  /\ error' = NoError
  /\ UNCHANGED <<stats, fileName, exported, now>>

\* An answer that is put before the rows on screen: what handleFileUpload
\* would be with setData(prev => [...result.data, ...prev]). The property of
\* the pending upload tells it from UploadSucceeds.
UploadKeepsEdits(rawData, size, name, t) ==
  LET transformed == TransformedData(rawData, t)
  IN /\ loading
     /\ Commit(transformed \o data, ParsedHeaders(transformed), Table)
     /\ stats' = UploadStats(transformed, size)
     /\ fileName' = [name |-> name]
     /\ loading' = FALSE
     /\ UNCHANGED <<error, exported>>
     /\ now' = t

\* handleFileUpload after the await, the parser having answered with rows:
\* setHeaders, setData, setFileName, setStats; finally setLoading(false)
UploadSucceeds(rawData, size, name, t) ==
  LET transformed == TransformedData(rawData, t)
  IN /\ loading
     /\ Commit(transformed, ParsedHeaders(transformed), Table)
     /\ stats' = UploadStats(transformed, size)
     /\ fileName' = [name |-> name]
     /\ loading' = FALSE
     /\ UNCHANGED <<error, exported>>
     /\ now' = t

\* A failed upload that leaves the rows on screen: what handleFileUpload
\* would be without setData([]) and setHeaders([]). The property that an
\* error shows no table tells it from UploadFails.
UploadFailsKeepingRows(message) ==
  /\ loading
  /\ Commit(data, headers, Table)
  /\ error' = message
  /\ stats' = NoStats
  /\ loading' = FALSE
  /\ UNCHANGED <<fileName, exported, now>>

\* handleFileUpload after the await, the parser having answered with an
\* error: setError, setData([]), setHeaders([]), setStats(null); finally
\* setLoading(false)
UploadFails(message) ==
  /\ loading
  /\ Commit(<<>>, <<>>, Table)
  /\ error' = message
  /\ stats' = NoStats
  /\ loading' = FALSE
  /\ UNCHANGED <<fileName, exported, now>>

\* handleClear
HandleClear ==
  /\ Mounted(data)
  /\ Commit(<<>>, <<>>, Table)
  /\ error' = NoError
  /\ fileName' = NoFileName
  /\ stats' = NoStats
  /\ UNCHANGED <<loading, exported, now>>

\* An export of the rows on screen: what handleExportCSV would be if the
\* table handed it its sorted and filtered rows. The property that an export
\* covers the store tells it from HandleExportCSV.
HandleExportCSVOfView ==
  /\ Mounted(data)
  /\ exported' = ExportDataAsCSV(displayData("V8"),
                                 ExportFileName(fileName, "_parsed.csv",
                                                "excelstorm_export.csv"))
  /\ UNCHANGED <<data, headers, searchTerm, sortConfig, selectedRows,
                 currentPage, itemsPerPage, editingRow, isModalOpen, isNewRow,
                 formData, stats, loading, error, fileName, now>>

\* handleExportCSV: the button is rendered only while data.length > 0
HandleExportCSV ==
  /\ Mounted(data)
  /\ exported' = ExportDataAsCSV(data,
                                 ExportFileName(fileName, "_parsed.csv",
                                                "excelstorm_export.csv"))
  /\ UNCHANGED <<data, headers, searchTerm, sortConfig, selectedRows,
                 currentPage, itemsPerPage, editingRow, isModalOpen, isNewRow,
                 formData, stats, loading, error, fileName, now>>

\* handleExportExcel: the button is rendered only while data.length > 0
HandleExportExcel ==
  /\ Mounted(data)
  /\ exported' = ExportDataAsExcel(data,
                                   ExportFileName(fileName, "_parsed.xlsx",
                                                  "excelstorm_export.xlsx"))
  /\ UNCHANGED <<data, headers, searchTerm, sortConfig, selectedRows,
                 currentPage, itemsPerPage, editingRow, isModalOpen, isNewRow,
                 formData, stats, loading, error, fileName, now>>

\* handleDataChange(updatedData), called by the table with its new state t
\* Statistics that keep the row count of the upload: what handleDataChange
\* would be without its setStats call. The row-count property tells it from
\* WithRowCount.
WithRowCountOfUpload(prev, n) == prev

\* setStats(prev => ({...prev, rowCount: updatedData.length}))
WithRowCount(prev, n) ==
  IF prev = NoStats THEN [rowCount |-> n] ELSE [prev EXCEPT !.rowCount = n]

OnDataChange(updatedData, t) ==
  /\ Commit(updatedData, headers, t)
  /\ stats' = WithRowCount(stats, Len(updatedData))
  /\ UNCHANGED appShell

(***************************************************************************)
(* Table handlers. The table exists while the store is non-empty, and the  *)
(* modal's overlay covers it while the modal is open.                      *)
(***************************************************************************)
TableUsable == Mounted(data) /\ ~isModalOpen

\* onChange of the search input: setSearchTerm(e.target.value)
SetSearchTerm(term) ==
  /\ TableUsable
  /\ Commit(data, headers, [Table EXCEPT !.searchTerm = term])
  /\ UNCHANGED <<stats, now, appShell>>

\* A header click that flips the direction whatever the column: what
\* handleSort would be without the test prev.key === key. The sort-state
\* property tells it from NextSortConfig.
ToggleAnyColumn(prev, header) ==
  [key |-> header, direction |-> IF prev.direction = "asc" THEN "desc" ELSE "asc"]

\* handleSort(header)
NextSortConfig(prev, header) ==
  [key |-> header,
   direction |-> IF prev.key = header /\ prev.direction = "asc" THEN "desc" ELSE "asc"]

HandleSort(header) ==
  /\ TableUsable
  /\ Commit(data, headers, [Table EXCEPT !.sortConfig = NextSortConfig(sortConfig, header)])
  /\ UNCHANGED <<stats, now, appShell>>

\* A toggle that starts a new selection: what handleSelectRow would be if it
\* did not copy the previous set. The selection property tells it from
\* ToggledSelection.
ToggledAlone(prev, rowId) == IF rowId \in prev THEN {} ELSE {rowId}

\* handleSelectRow(rowId)
ToggledSelection(prev, rowId) ==
  IF rowId \in prev THEN prev \ {rowId} ELSE prev \cup {rowId}

HandleSelectRow(rowId) ==
  /\ TableUsable
  /\ Commit(data, headers, [Table EXCEPT !.selectedRows = ToggledSelection(selectedRows, rowId)])
  /\ UNCHANGED <<stats, now, appShell>>

\* handleSelectAll(checked)
SelectAllSelection(checked, page) == IF checked THEN RowIds(page) ELSE {}

HandleSelectAll(checked, engine) ==
  /\ TableUsable
  /\ Commit(data, headers,
            [Table EXCEPT !.selectedRows =
                            SelectAllSelection(checked, paginatedData(engine))])
  /\ UNCHANGED <<stats, now, appShell>>

\* handleAddRow
HandleAddRow(t) ==
  /\ TableUsable
  /\ Commit(data, headers,
            [Table EXCEPT !.editingRow = CreateNewRow(t, Today),
                          !.isNewRow = TRUE, !.isModalOpen = TRUE])
  /\ UNCHANGED <<stats, appShell>>
  /\ now' = t

\* handleEditRow(row)
HandleEditRow(row) ==
  /\ TableUsable
  /\ Commit(data, headers,
            [Table EXCEPT !.editingRow = row, !.isNewRow = FALSE, !.isModalOpen = TRUE])
  /\ UNCHANGED <<stats, now, appShell>>

\* EditRowModal.handleChange(field, value)
ModalHandleChange(field, value) ==
  /\ Mounted(data) /\ isModalOpen
  /\ Commit(data, headers,
            [Table EXCEPT !.formData = [formData EXCEPT !.cells[field] = Str(value)]])
  /\ UNCHANGED <<stats, now, appShell>>

\* A save that puts a new row last: what handleSaveRow would be with
\* [...data, row]. The add-mode property tells it from SavedData.
SavedAtEnd(d, row, new) ==
  IF new THEN d \o <<row>>
  ELSE [i \in 1..Len(d) |-> IF d[i].id = row.id THEN row ELSE d[i]]

\* handleSaveRow(row)
SavedData(d, row, new) ==
  IF new THEN <<row>> \o d
  ELSE [i \in 1..Len(d) |-> IF d[i].id = row.id THEN row ELSE d[i]]

\* EditRowModal.handleSubmit: onSave(formData)
HandleSaveRow ==
  /\ Mounted(data) /\ isModalOpen
  /\ OnDataChange(SavedData(data, formData, isNewRow),
                  [Table EXCEPT !.isModalOpen = FALSE, !.editingRow = NoRow,
                                !.isNewRow = FALSE])
  /\ UNCHANGED now

\* handleCancelEdit
HandleCancelEdit ==
  /\ Mounted(data) /\ isModalOpen
  /\ Commit(data, headers, [Table EXCEPT !.isModalOpen = FALSE, !.editingRow = NoRow])
  /\ UNCHANGED <<stats, now, appShell>>

\* A bulk delete that reaches only the page on screen: what
\* handleDeleteSelected would be if it filtered paginatedData. The bulk
\* delete property tells it from WithoutSelected.
WithoutSelectedOnPage(d, sel) ==
  LET Keep(row) == row.id \notin sel \/ row \notin VisibleRows IN SelectSeq(d, Keep)

\* handleDeleteSelected, with the user's answer to window.confirm
WithoutSelected(d, sel) == LET Keep(row) == row.id \notin sel IN SelectSeq(d, Keep)

HandleDeleteSelected(confirmed) ==
  /\ TableUsable
  /\ IF Cardinality(selectedRows) = 0 \/ ~confirmed
       THEN UNCHANGED vars
       ELSE /\ OnDataChange(WithoutSelected(data, selectedRows),
                            [Table EXCEPT !.selectedRows = {}])
            /\ UNCHANGED now

\* handleDuplicateSelected; random[i] is the Math.random() of the i-th copy
SelectedOf(d, sel) == LET Keep(row) == row.id \in sel IN SelectSeq(d, Keep)

\* Copies in the reverse order of their originals: what the duplication
\* would be with selected.reverse(). The duplication property tells it from
\* Duplicates.
DuplicatesReversed(selected, t, random) ==
  [i \in 1..Len(selected) |->
     [selected[Len(selected) + 1 - i] EXCEPT !.id = Id(t, random[i])]]

Duplicates(selected, t, random) ==
  [i \in 1..Len(selected) |-> [selected[i] EXCEPT !.id = Id(t, random[i])]]

\* A duplication that leaves the selection standing: what
\* handleDuplicateSelected would be without setSelectedRows(new Set()). The
\* property that bulk operations clear the selection tells it from
\* HandleDuplicateSelected.
HandleDuplicateKeepingSelection(random, t) ==
  /\ TableUsable
  /\ IF Cardinality(selectedRows) = 0
       THEN UNCHANGED vars
       ELSE /\ OnDataChange(Duplicates(SelectedOf(data, selectedRows), t, random) \o data,
                            Table)
            /\ now' = t

HandleDuplicateSelected(random, t) ==
  /\ TableUsable
  /\ IF Cardinality(selectedRows) = 0
       THEN UNCHANGED vars
       ELSE LET selected == SelectedOf(data, selectedRows)
            IN /\ OnDataChange(Duplicates(selected, t, random) \o data,
                               [Table EXCEPT !.selectedRows = {}])
               /\ now' = t

\* handleDeleteRow(rowId), with the user's answer to window.confirm
WithoutRow(d, rowId) == LET Keep(row) == row.id # rowId IN SelectSeq(d, Keep)

HandleDeleteRow(rowId, confirmed) ==
  /\ TableUsable
  /\ IF confirmed
       THEN OnDataChange(WithoutRow(data, rowId), Table) /\ UNCHANGED now
       ELSE UNCHANGED vars

\* handlePageChange(page)
ClampedPage(page, pages) == Max(1, Min(page, pages))

HandlePageChange(page) ==
  /\ TableUsable
  /\ Commit(data, headers, [Table EXCEPT !.currentPage = ClampedPage(page, totalPages)])
  /\ UNCHANGED <<stats, now, appShell>>

\* handleItemsPerPageChange(newItemsPerPage)
HandleItemsPerPageChange(newItemsPerPage) ==
  /\ TableUsable
  /\ Commit(data, headers,
            [Table EXCEPT !.itemsPerPage = newItemsPerPage, !.currentPage = 1])
  /\ UNCHANGED <<stats, now, appShell>>

\* one Math.random() per selected row of the store
Randoms == [1..Len(SelectedOf(data, selectedRows)) -> 0..MaxFrac]

\* the values Date.now() may return next: the clock does not run backwards
Clock == now..MaxTime

\* the store is not grown beyond a given number of rows
SaveFits(cap) == Len(data) < cap \/ ~isNewRow
DuplicatesFit(cap) == Len(data) + Len(SelectedOf(data, selectedRows)) <= cap

(***************************************************************************)
(* The application.                                                        *)
(***************************************************************************)
Init ==
  /\ data = <<>>
  /\ headers = <<>>
  /\ searchTerm = InitialTable.searchTerm
  /\ sortConfig = InitialTable.sortConfig
  /\ selectedRows = InitialTable.selectedRows
  /\ currentPage = InitialTable.currentPage
  /\ itemsPerPage = InitialTable.itemsPerPage
  /\ editingRow = InitialTable.editingRow
  /\ isModalOpen = InitialTable.isModalOpen
  /\ isNewRow = InitialTable.isNewRow
  /\ formData = InitialTable.formData
  /\ stats = NoStats
  /\ loading = FALSE
  /\ error = NoError
  /\ fileName = NoFileName
  /\ exported = NoFile
  /\ now = 0

Next ==
  \/ \E rawData \in Files, size \in FileSizes, t \in Clock :
       HandleFileUpload(rawData, size, t)
  \/ HandleClear
  \/ \E term \in SearchTerms : SetSearchTerm(term)
  \/ \E header \in SortColumns : HandleSort(header)
  \/ \E row \in VisibleRows : HandleSelectRow(row.id)
  \/ \E checked \in BOOLEAN, engine \in Engines : HandleSelectAll(checked, engine)
  \/ \E t \in Clock : HandleAddRow(t)
  \/ \E row \in VisibleRows : HandleEditRow(row)
  \/ \E field \in EditFields, value \in EditValues : ModalHandleChange(field, value)
  \/ SaveFits(MaxStore) /\ HandleSaveRow
  \/ HandleCancelEdit
  \/ \E confirmed \in BOOLEAN : HandleDeleteSelected(confirmed)
  \/ \E random \in Randoms, t \in Clock :
       DuplicatesFit(MaxStore) /\ HandleDuplicateSelected(random, t)
  \/ \E row \in VisibleRows, confirmed \in BOOLEAN : HandleDeleteRow(row.id, confirmed)
  \/ \E page \in 0..(totalPages + 1) : HandlePageChange(page)
  \/ \E newItemsPerPage \in PageSizeChoices :
       HandleItemsPerPageChange(newItemsPerPage)

Spec == Init /\ [][Next]_vars

(***************************************************************************)
(* The view pipeline in isolation: a file of up to MaxViewRows rows has    *)
(* just been uploaded into a fresh application, and the user then only     *)
(* types in the search box (SpecFilter) or clicks column headers           *)
(* (SpecSort).                                                             *)
(***************************************************************************)
AfterUpload(rawData) ==
  /\ data = TransformedData(rawData, 0)
  /\ headers = ParsedHeaders(TransformedData(rawData, 0))
  /\ searchTerm = InitialTable.searchTerm
  /\ sortConfig = InitialTable.sortConfig
  /\ selectedRows = InitialTable.selectedRows
  /\ currentPage = InitialTable.currentPage
  /\ itemsPerPage = InitialTable.itemsPerPage
  /\ editingRow = InitialTable.editingRow
  /\ isModalOpen = InitialTable.isModalOpen
  /\ isNewRow = InitialTable.isNewRow
  /\ formData = InitialTable.formData
  /\ \E size \in FileSizes : stats = UploadStats(TransformedData(rawData, 0), size)
  /\ loading = FALSE
  /\ error = NoError
  /\ \E name \in FileNames : fileName = [name |-> name]
  /\ exported = NoFile
  /\ now = 0

\* cell values of the sheet: the same raw value in three source columns
SortValues ==
  { Undefined, Num(50), Str(<<"5", "0">>), Str(<<"5", "0", "0">>),
    Str(<<"1", "0", "0", "0">>), Str(<<"2">>), Str(<<"1", "a">>),
    Str(<<"a">>), Str(<<"A">>) }

SortFiles == SeqsUpTo({RawItem(v, v, v) : v \in SortValues}, MaxViewRows) \ {<<>>}

SortClicks == {"A_BANCD", "CHALL_DATE", "CHAN_AMT"}

InitSort == \E rawData \in SortFiles : AfterUpload(rawData)

NextSort == \E header \in SortClicks : HandleSort(header)

SpecSort == InitSort /\ [][NextSort]_vars

\* rows for the filter: bank code, date and amount vary independently
FilterBanks == {Undefined, Str(<<"B", "a">>), Str(<<"b", "k">>)}
FilterDates == {Undefined, Num(0), Num(10)}
FilterAmounts == {Num(5), Str(<<"a", "B">>)}

FilterItems ==
  {RawItem(b, d, a) : b \in FilterBanks, d \in FilterDates, a \in FilterAmounts}

FilterFiles == SeqsUpTo(FilterItems, MaxFilterRows) \ {<<>>}

FilterTerms == {<<>>, <<"0">>, <<"b">>, <<"B", "A">>, <<"x">>}

InitFilter == \E rawData \in FilterFiles : AfterUpload(rawData)

NextFilter == \E term \in FilterTerms : SetSearchTerm(term)

SpecFilter == InitFilter /\ [][NextFilter]_vars

(***************************************************************************)
(* The pagination window in isolation: a file of 1..MaxPagingLen rows has  *)
(* just been uploaded; the user changes page and page size, and types a    *)
(* filter text that matches every row, or none.                            *)
(***************************************************************************)
PagingFile(n) == [i \in 1..n |-> RawItem(Str(<<"b">>), Undefined, Num(5))]

PagingTerms == {<<>>, <<"b">>, <<"x">>}

InitPaging == \E n \in 1..MaxPagingLen : AfterUpload(PagingFile(n))

NextPaging ==
  \/ \E page \in 0..(totalPages + 1) : HandlePageChange(page)
  \/ \E newItemsPerPage \in ITEMS_PER_PAGE_OPTIONS :
       HandleItemsPerPageChange(newItemsPerPage)
  \/ \E term \in PagingTerms : SetSearchTerm(term)

SpecPaging == InitPaging /\ [][NextPaging]_vars

(***************************************************************************)
(* A collection of several pages: LargeRows rows have just been uploaded,  *)
(* the first LargeMatches of them with bank code "b". The user filters,    *)
(* pages, changes the page size and selects, and deletes the selection     *)
(* once, while the collection is whole.                                    *)
(***************************************************************************)
LargeFile ==
  [i \in 1..LargeRows |->
     RawItem(IF i <= LargeMatches THEN Str(<<"b">>) ELSE Str(<<"k">>), Undefined, Num(5))]

LargeTerms == {<<>>, <<"b">>}

\* the rows whose checkbox the user toggles: the first MaxToggle of the page
ToggleRows ==
  UNION {Elements(SubSeq(paginatedData(e), 1, Min(MaxToggle, Len(paginatedData(e)))))
           : e \in Engines}

InitLarge == AfterUpload(LargeFile)

NextLarge ==
  \/ \E term \in LargeTerms : SetSearchTerm(term)
  \/ \E page \in 0..(totalPages + 1) : HandlePageChange(page)
  \/ \E newItemsPerPage \in PageSizeChoices :
       HandleItemsPerPageChange(newItemsPerPage)
  \/ \E checked \in BOOLEAN, engine \in Engines : HandleSelectAll(checked, engine)
  \/ \E row \in ToggleRows : HandleSelectRow(row.id)
  \/ \E confirmed \in BOOLEAN : Len(data) = LargeRows /\ HandleDeleteSelected(confirmed)

SpecLarge == InitLarge /\ [][NextLarge]_vars

(***************************************************************************)
(* Navigation: NavigateRows rows, more than one page of the smallest page  *)
(* size, have just been uploaded, the first half with bank code "b". The   *)
(* user sorts by bank code, pages, changes the page size and toggles the   *)
(* checkbox of the first row of the page, or of the whole page.            *)
(***************************************************************************)
NavigateRows == 11

NavigateFile ==
  [i \in 1..NavigateRows |->
     RawItem(IF 2 * i <= NavigateRows THEN Str(<<"b">>) ELSE Str(<<"k">>),
             Undefined, Num(5))]

NavigateSortColumns == {"A_BANCD"}

\* the row whose checkbox the user toggles: the first of the page
FirstRows ==
  UNION {Elements(SubSeq(paginatedData(e), 1, Min(1, Len(paginatedData(e)))))
           : e \in Engines}

InitNavigate == AfterUpload(NavigateFile)

NextNavigate ==
  \/ \E header \in NavigateSortColumns : HandleSort(header)
  \/ \E page \in 0..(totalPages + 1) : HandlePageChange(page)
  \/ \E newItemsPerPage \in PageSizeChoices :
       HandleItemsPerPageChange(newItemsPerPage)
  \/ \E row \in FirstRows : HandleSelectRow(row.id)
  \/ \E checked \in BOOLEAN, engine \in Engines : HandleSelectAll(checked, engine)

SpecNavigate == InitNavigate /\ [][NextNavigate]_vars

(***************************************************************************)
(* Mutations: MutateRows rows have just been uploaded, with bank codes     *)
(* "b" and "k" in turn. The user selects rows, adds a row, and deletes and  *)
(* duplicates the selection; the store is not grown beyond MaxMutateStore  *)
(* rows.                                                                   *)
(***************************************************************************)
MutateRows == 2
MaxMutateStore == 4

MutateFile ==
  [i \in 1..MutateRows |->
     RawItem(IF i % 2 = 1 THEN Str(<<"b">>) ELSE Str(<<"k">>), Undefined, Num(5))]

InitMutate == AfterUpload(MutateFile)

NextMutate ==
  \/ \E row \in VisibleRows : HandleSelectRow(row.id)
  \/ \E t \in Clock : HandleAddRow(t)
  \/ SaveFits(MaxMutateStore) /\ HandleSaveRow
  \/ HandleCancelEdit
  \/ \E confirmed \in BOOLEAN : HandleDeleteSelected(confirmed)
  \/ \E random \in Randoms, t \in Clock :
       DuplicatesFit(MaxMutateStore) /\ HandleDuplicateSelected(random, t)

SpecMutate == InitMutate /\ [][NextMutate]_vars

(***************************************************************************)
(* The statistics panel: from a fresh application the user uploads and     *)
(* clears files and mutates the store in every way the table offers,       *)
(* without filtering, sorting or paging.                                   *)
(***************************************************************************)
NextStats ==
  \/ \E rawData \in Files, size \in FileSizes, t \in Clock :
       HandleFileUpload(rawData, size, t)
  \/ HandleClear
  \/ \E row \in VisibleRows : HandleSelectRow(row.id)
  \/ \E t \in Clock : HandleAddRow(t)
  \/ \E row \in VisibleRows : HandleEditRow(row)
  \/ \E field \in EditFields, value \in EditValues : ModalHandleChange(field, value)
  \/ SaveFits(MaxStore) /\ HandleSaveRow
  \/ \E confirmed \in BOOLEAN : HandleDeleteSelected(confirmed)
  \/ \E random \in Randoms, t \in Clock :
       DuplicatesFit(MaxStore) /\ HandleDuplicateSelected(random, t)
  \/ \E row \in VisibleRows, confirmed \in BOOLEAN : HandleDeleteRow(row.id, confirmed)

SpecStats == Init /\ [][NextStats]_vars

(***************************************************************************)
(* Uploads in flight: from a fresh application the user starts uploads of  *)
(* an empty sheet, of one row and of more than one page of rows; the       *)
(* parser answers with the rows or with an error. Meanwhile and afterwards *)
(* the user filters, sorts, pages, selects and clears, and deletes one row *)
(* of the large sheet.                                                     *)
(***************************************************************************)
UploadFiles == {PagingFile(n) : n \in {0, 1, NavigateRows}}

\* the parser's answer to the pending upload
ParserAnswers ==
  \/ \E rawData \in UploadFiles, size \in FileSizes, name \in FileNames, t \in Clock :
       UploadSucceeds(rawData, size, name, t)
  \/ \E message \in ErrorMessages : UploadFails(message)

NextUpload ==
  \/ StartUpload
  \/ ParserAnswers
  \/ HandleClear
  \/ \E term \in PagingTerms : SetSearchTerm(term)
  \/ \E header \in NavigateSortColumns : HandleSort(header)
  \/ \E page \in 0..(totalPages + 1) : HandlePageChange(page)
  \/ \E newItemsPerPage \in PageSizeChoices :
       HandleItemsPerPageChange(newItemsPerPage)
  \/ \E row \in FirstRows : HandleSelectRow(row.id)
  \/ \E row \in FirstRows : Len(data) = NavigateRows /\ HandleDeleteRow(row.id, TRUE)

SpecUpload == Init /\ [][NextUpload]_vars

\* the read and parse collaborator eventually answers
SpecUploadFair == SpecUpload /\ WF_vars(ParserAnswers)

(***************************************************************************)
(* Export from the table: a sheet of up to MaxExportRows rows whose cells  *)
(* hold commas, double quotes and a dd/mm/yyyy date, or a sheet of more    *)
(* than one page, has just been uploaded; the user filters, sorts, pages   *)
(* and selects, and exports as CSV and as a workbook.                      *)
(***************************************************************************)
MaxExportRows == 2

ExportItems ==
  LET Item(challan, date, notes) ==
        [RawItem(Str(<<"b">>), date, Num(5))
           EXCEPT !.ChallanNumber = challan, !.Notes = notes]
  IN { Item(Str(<<"A", "B", ",", "1", "2">>), Undefined,
            Str(<<"H", "e", " ", "s", "a", "i", "d", " ", "\"", "h", "i", "\"">>)),
       Item(Str(<<"x">>),
            Str(<<"2", "4", "/", "0", "2", "/", "2", "0", "2", "6">>), Undefined),
       Item(Undefined, Num(0), Str(<<"a", ",", "\"">>)) }

InitExport ==
  \E rawData \in (SeqsUpTo(ExportItems, MaxExportRows) \ {<<>>})
                   \cup {PagingFile(NavigateRows)} :
    AfterUpload(rawData)

NextExport ==
  \/ \E term \in {<<>>, <<"x">>, <<"1", "0">>} : SetSearchTerm(term)
  \/ \E header \in {"CHALLAN_NO"} : HandleSort(header)
  \/ \E page \in 0..(totalPages + 1) : HandlePageChange(page)
  \/ \E row \in FirstRows : HandleSelectRow(row.id)
  \/ HandleExportCSV
  \/ HandleExportExcel

SpecExport == InitExport /\ [][NextExport]_vars

(***************************************************************************)
(* exportDataAsCSV as a function: any collection of up to MaxCsvRows       *)
(* records with the two keys CHALLAN_NO and NOTES, the empty collection    *)
(* included, is handed to it once.                                         *)
(***************************************************************************)
MaxCsvRows == 2

CsvInputs ==
  LET Values == { Undefined, Num(5), Str(<<"a">>), Str(<<"a", ",", "\"">>),
                  Str(<<"A", "B", ",", "1", "2">>),
                  Str(<<"H", "e", " ", "s", "a", "i", "d", " ",
                        "\"", "h", "i", "\"">>) }
      Record(challan, notes) ==
        [id |-> Id(0, 0),
         cells |-> [h \in {"CHALLAN_NO", "NOTES"} |->
                      IF h = "CHALLAN_NO" THEN challan ELSE notes]]
  IN SeqsUpTo({Record(c, n) : c \in Values, n \in Values}, MaxCsvRows)

InitCsv ==
  /\ data \in CsvInputs
  /\ headers = (IF Len(data) = 0 THEN <<>> ELSE ExportKeys(data[1]))
  /\ searchTerm = InitialTable.searchTerm
  /\ sortConfig = InitialTable.sortConfig
  /\ selectedRows = InitialTable.selectedRows
  /\ currentPage = InitialTable.currentPage
  /\ itemsPerPage = InitialTable.itemsPerPage
  /\ editingRow = InitialTable.editingRow
  /\ isModalOpen = InitialTable.isModalOpen
  /\ isNewRow = InitialTable.isNewRow
  /\ formData = InitialTable.formData
  /\ stats = NoStats
  /\ loading = FALSE
  /\ error = NoError
  /\ fileName = NoFileName
  /\ exported = NoFile
  /\ now = 0

\* exportDataAsCSV(data, 'excelstorm_export.csv')
NextCsv ==
  /\ exported' = ExportDataAsCSV(data, <<"excelstorm_export.csv">>)
  /\ UNCHANGED <<data, headers, searchTerm, sortConfig, selectedRows,
                 currentPage, itemsPerPage, editingRow, isModalOpen, isNewRow,
                 formData, stats, loading, error, fileName, now>>

SpecCsv == InitCsv /\ [][NextCsv]_vars

(***************************************************************************)
(* Properties of the record store.                                         *)
(***************************************************************************)
\* C1: in every reachable state the records of the store have pairwise
\* distinct ids, whatever uploads, added rows and duplications produced them.
C1_IdsPairwiseDistinct ==
  \A i, j \in 1..Len(data) : i # j => data[i].id # data[j].id

(***************************************************************************)
(* Properties of the view pipeline.                                        *)
(***************************************************************************)
filtered == FilteredData(data, headers, searchTerm)

\* the values of a column down a sequence of rows
ColumnValues(rows, key) == [i \in 1..Len(rows) |-> rows[i].cells[key]]

\* the string form of a cell value; a cell without a value has the empty one
StringForm(v) == IF IsNullish(v) THEN <<>> ELSE JsString(v)

ContainsTerm(row, term) ==
  \E i \in 1..Len(headers) :
    Includes(ToLowerCase(StringForm(row.cells[headers[i]])), ToLowerCase(term))

\* C2: the filter retains exactly the records one of whose header column
\* values contains the filter text in its lower-cased string form (a numeric
\* 0 has the string form "0"), in store order; the empty filter retains all.
C2_FilterRetainsContaining ==
  /\ filtered = SelectSeq(data, LAMBDA row : ContainsTerm(row, searchTerm))
  /\ searchTerm = <<>> => filtered = data

Count(s, x) == Cardinality({i \in 1..Len(s) : s[i] = x})

IsPermutationOf(s, t) ==
  /\ Len(s) = Len(t)
  /\ \A i \in 1..Len(t) : Count(s, t[i]) = Count(t, t[i])

\* the order of two present values: numeric when both parse as numbers,
\* case-insensitive string order otherwise; negative, zero or positive
ValueOrder(a, b) ==
  IF ~IsNaN(a) /\ ~IsNaN(b) THEN ToNumber(a) - ToNumber(b)
  ELSE LocaleCompare(ToLowerCase(JsString(a)), ToLowerCase(JsString(b)))

InOrder(a, b, direction) ==
  IF direction = "asc" THEN ValueOrder(a, b) <= 0 ELSE ValueOrder(a, b) >= 0

AllPresent(rows, key) == \A i \in 1..Len(rows) : ~IsNullish(rows[i].cells[key])

Example500 == <<Str(<<"5", "0", "0">>), Str(<<"5", "0">>), Str(<<"1", "0", "0", "0">>)>>
Example500Sorted == <<Str(<<"5", "0">>), Str(<<"5", "0", "0">>), Str(<<"1", "0", "0", "0">>)>>

\* C3: with a sort column chosen and every value of it present, what is shown
\* is a permutation of the filtered records with every two adjacent records
\* in order for the direction, in either engine; CHAN_AMT values "500", "50",
\* "1000" are shown ascending as "50", "500", "1000".
C3_SortedIsOrderedPermutation ==
  (sortConfig.key # NoKey /\ AllPresent(filtered, sortConfig.key)) =>
    \A engine \in Engines :
      LET sorted == displayData(engine)
          values == ColumnValues(sorted, sortConfig.key)
      IN /\ IsPermutationOf(sorted, filtered)
         /\ \A i \in 1..(Len(sorted) - 1) :
              InOrder(values[i], values[i + 1], sortConfig.direction)
         /\ (/\ sortConfig = [key |-> "CHAN_AMT", direction |-> "asc"]
             /\ ColumnValues(filtered, "CHAN_AMT") = Example500)
            => values = Example500Sorted

\* a column mixing numbers, other strings and the empty string, that the
\* sort has had to reorder
C3_Witness ==
  /\ sortConfig.key # NoKey
  /\ AllPresent(filtered, sortConfig.key)
  /\ LET values == ColumnValues(filtered, sortConfig.key)
     IN /\ \E i \in 1..Len(values) : values[i] = Str(<<>>)
        /\ \E i \in 1..Len(values) : IsNaN(values[i])
        /\ \E i \in 1..Len(values) : ~IsNaN(values[i]) /\ values[i] # Str(<<>>)
  /\ \A engine \in Engines : displayData(engine) # filtered

C3_WitnessExample ==
  /\ sortConfig = [key |-> "CHAN_AMT", direction |-> "asc"]
  /\ ColumnValues(filtered, "CHAN_AMT") = Example500
  /\ \A engine \in Engines :
       ColumnValues(displayData(engine), "CHAN_AMT") = Example500Sorted

MissingRows(rows, key) == SelectSeq(rows, LAMBDA row : IsNullish(row.cells[key]))

MissingLast(rows, key) ==
  \A i, j \in 1..Len(rows) :
    (i < j /\ IsNullish(rows[i].cells[key])) => IsNullish(rows[j].cells[key])

\* C4: in either direction no record without a value in the sort column is
\* shown before one with a value, and the records without a value are shown
\* in the order the filtered records had them.
C4_MissingLastInOrder ==
  sortConfig.key # NoKey =>
    \A engine \in Engines :
      /\ MissingLast(displayData(engine), sortConfig.key)
      /\ MissingRows(displayData(engine), sortConfig.key)
           = MissingRows(filtered, sortConfig.key)

\* the first half of C4 alone
C4_MissingLast ==
  sortConfig.key # NoKey =>
    \A engine \in Engines : MissingLast(displayData(engine), sortConfig.key)

\* what the first click on the sorted column showed: the same records
\* sorted ascending (a click changes nothing but the sort state)
AfterFirstClick(engine) ==
  DisplayData(data, headers, searchTerm,
              [key |-> sortConfig.key, direction |-> "asc"], engine)

\* the state a second click on the same header leaves
AfterSecondClick == sortConfig.key # NoKey /\ sortConfig.direction = "desc"

\* C5 as stated: the second click on a header shows exactly the reverse of
\* what the first click showed, whatever the records and the column.
C5_SecondClickReverses ==
  AfterSecondClick =>
    \A engine \in Engines : displayData(engine) = Reverse(AfterFirstClick(engine))

NoTies(rows, key) ==
  \A i, j \in 1..Len(rows) :
    i # j => ValueOrder(rows[i].cells[key], rows[j].cells[key]) # 0

\* the values of the column are compared in one way only
OneKind(rows, key) ==
  \/ \A i \in 1..Len(rows) : ~IsNaN(rows[i].cells[key])
  \/ \A i \in 1..Len(rows) : IsNaN(rows[i].cells[key])

\* C5, amended: the second click shows exactly the reverse of what the first
\* click showed when every record has a value in the column, the values
\* either all parse as numbers or none does, and no two of them compare as
\* equal.
C5_SecondClickReversesDistinct ==
  (/\ AfterSecondClick
   /\ AllPresent(filtered, sortConfig.key)
   /\ OneKind(filtered, sortConfig.key)
   /\ NoTies(filtered, sortConfig.key))
  => \A engine \in Engines : displayData(engine) = Reverse(AfterFirstClick(engine))

C5_Witness ==
  /\ sortConfig.key # NoKey
  /\ sortConfig.direction = "desc"
  /\ Len(filtered) = MaxViewRows
  /\ AllPresent(filtered, sortConfig.key)
  /\ OneKind(filtered, sortConfig.key)
  /\ NoTies(filtered, sortConfig.key)
  /\ \A engine \in Engines :
       /\ displayData(engine) # filtered
       /\ displayData(engine) = Reverse(AfterFirstClick(engine))

\* C6: the sort state starts as no column, ascending; a click on the sorted
\* column flips the direction and a click on another column sorts by it
\* ascending.
C6_SortStateMachine ==
  /\ sortConfig = [key |-> NoKey, direction |-> "asc"]
  /\ [][/\ sortConfig'.key \in SortClicks
        /\ sortConfig' =
             IF sortConfig'.key = sortConfig.key
               THEN [key |-> sortConfig.key,
                     direction |-> IF sortConfig.direction = "asc" THEN "desc" ELSE "asc"]
               ELSE [key |-> sortConfig'.key, direction |-> "asc"]]_vars

C6_Witness == sortConfig = [key |-> "CHALL_DATE", direction |-> "desc"]

(***************************************************************************)
(* Properties of pagination and selection.                                 *)
(***************************************************************************)
\* the records at 0-based positions [(p - 1) * size, p * size) of rows
Window(rows, p, size) ==
  [i \in 1..(Min(p * size, Len(rows)) - Min((p - 1) * size, Len(rows))) |->
     rows[(p - 1) * size + i]]

RECURSIVE PagesFrom(_, _, _, _)
PagesFrom(rows, p, pages, size) ==
  IF p > pages THEN <<>>
  ELSE PaginatedData(rows, p, size) \o PagesFrom(rows, p + 1, pages, size)

\* C7: for every projection length and allowed page size, totalPages is the
\* ceiling of length / page size (0 for the empty projection), the slice of
\* page p is the records at positions [(p-1)*size, p*size), and the slices
\* of pages 1..totalPages in order make up the projection, every record on
\* exactly one page.
C7_PagesPartitionProjection ==
  /\ itemsPerPage \in ITEMS_PER_PAGE_OPTIONS
  /\ \A engine \in Engines :
       LET rows == displayData(engine)
       IN /\ (totalPages - 1) * itemsPerPage < Len(rows)
          /\ Len(rows) <= totalPages * itemsPerPage
          /\ Len(rows) = 0 => totalPages = 0
          /\ paginatedData(engine) = Window(rows, currentPage, itemsPerPage)
          /\ \A p \in 1..totalPages :
               PaginatedData(rows, p, itemsPerPage) = Window(rows, p, itemsPerPage)
          /\ PagesFrom(rows, 1, totalPages, itemsPerPage) = rows
          /\ \A i \in 1..Len(rows) :
               Cardinality({p \in 1..totalPages :
                              rows[i] \in Elements(PaginatedData(rows, p, itemsPerPage))}) = 1

\* a last page that is not full, at the largest page size
C7_Witness ==
  /\ itemsPerPage = 100
  /\ totalPages = 2
  /\ currentPage = 2
  /\ \A engine \in Engines : Len(paginatedData(engine)) = 1

\* C8: in every settled state the current page lies in 1..totalPages, or is
\* 1 when there are no pages.
C8_PageWithinRange ==
  IF totalPages = 0 THEN currentPage = 1 ELSE currentPage \in 1..totalPages

\* C9: a step that changes the filter text leaves the current page at 1 and
\* the selection empty, and a step that changes the page size leaves the
\* current page at 1.
C9_FilterAndPageSizeResetPage ==
  [][/\ searchTerm' # searchTerm => (currentPage' = 1 /\ selectedRows' = {})
     /\ itemsPerPage' # itemsPerPage => currentPage' = 1]_vars

\* the second half of C9 alone
C9_PageSizeResetsPage == [][itemsPerPage' # itemsPerPage => currentPage' = 1]_vars

\* C10: toggling an id adds it to the selection when absent and removes it
\* when present, every other member staying; select-all replaces the
\* selection by the ids of the visible page; deselect-all empties it.
C10_SelectionSemantics ==
  [][/\ \A row \in ToggleRows :
          HandleSelectRow(row.id) =>
            /\ row.id \in selectedRows' <=> row.id \notin selectedRows
            /\ selectedRows' \ {row.id} = selectedRows \ {row.id}
     /\ \A engine \in Engines :
          /\ HandleSelectAll(TRUE, engine) => selectedRows' = RowIds(paginatedData(engine))
          /\ HandleSelectAll(FALSE, engine) => selectedRows' = {}]_vars

\* a row of the second page toggled in after the first page was selected
C10_Witness ==
  /\ currentPage = 2
  /\ \E row \in ToggleRows : row.id \in selectedRows
  /\ \E engine \in Engines :
       \E id \in selectedRows : id \notin RowIds(paginatedData(engine))

(***************************************************************************)
(* Properties of the mutations of the record store.                        *)
(***************************************************************************)
\* C11: a step that changes the current page, the page size or the sort
\* column or direction leaves the selection as it was, so ids selected on
\* one page are still selected on another.
C11_ViewChangesKeepSelection ==
  [][ ( \/ \E page \in 0..(totalPages + 1) : HandlePageChange(page)
        \/ \E newItemsPerPage \in ITEMS_PER_PAGE_OPTIONS :
             HandleItemsPerPageChange(newItemsPerPage)
        \/ \E header \in HeaderSet : HandleSort(header) )
      => selectedRows' = selectedRows ]_vars

\* a sorted list on its second page, with selected ids that page does not show
C11_Witness ==
  /\ sortConfig.key # NoKey
  /\ currentPage >= 2
  /\ selectedRows # {}
  /\ \A row \in VisibleRows : row.id \notin selectedRows
  /\ \E i \in 1..Len(data) : data[i].id \in selectedRows
\* C12: a save in add mode puts the submitted record first, followed by the
\* previous collection in unchanged order, so the length grows by exactly 1.
C12_AddPrepends ==
  [][ (isNewRow /\ HandleSaveRow)
      => /\ Len(data') = Len(data) + 1
         /\ Head(data') = formData
         /\ Tail(data') = data ]_vars

\* a created row, which carries today's date, was saved and stands first
C12_Witness ==
  /\ ~isModalOpen
  /\ Len(data) > MutateRows
  /\ data[1].cells["CHALL_DATE"] = Str(Today)
  /\ \A i \in 2..Len(data) : data[i].cells["CHALL_DATE"] # Str(Today)
\* the positions at which two stores of equal length differ
ChangedPositions(before, after) ==
  {i \in 1..Len(before) : after[i] # before[i]}

\* C13: a save in edit mode, also of an edit made right after an add,
\* replaces exactly the one record whose id is the edited record's id, at
\* its position: the length is unchanged, at most one position changes, it
\* holds that id and receives the submitted record; with no such id the
\* collection is unchanged.
C13_EditReplacesOne ==
  (Mounted(data) /\ isModalOpen /\ ~isNewRow)
  => LET saved == SavedData(data, formData, isNewRow)
         changed == ChangedPositions(data, saved)
     IN /\ Len(saved) = Len(data)
        /\ Cardinality(changed) <= 1
        /\ \A i \in changed : data[i].id = formData.id /\ saved[i] = formData
        /\ (\A i \in 1..Len(data) : data[i].id # formData.id) => saved = data
\* a store without its k-th record
RemoveAt(d, k) == SubSeq(d, 1, k - 1) \o SubSeq(d, k + 1, Len(d))

\* C14: a confirmed delete of a row the page shows removes that one record
\* and keeps every other record in its order, so the length drops by 1.
C14_DeleteOneRemovesOne ==
  TableUsable
  => \A row \in VisibleRows :
       LET after == WithoutRow(data, row.id)
       IN /\ Len(after) = Len(data) - 1
          /\ \E k \in 1..Len(data) : data[k] = row /\ after = RemoveAt(data, k)
\* the position of the record with a given id, in a store of distinct ids
PositionOf(d, id) == CHOOSE k \in 1..Len(d) : d[k].id = id

\* after is before without some records, the others in their order
KeepsOrderOf(before, after) ==
  \A i, j \in 1..Len(after) :
    i < j => PositionOf(before, after[i].id) < PositionOf(before, after[j].id)

NthSelected(i) ==
  CHOOSE k \in 1..Len(data) :
    /\ data[k].id \in selectedRows
    /\ Cardinality({m \in 1..k : data[m].id \in selectedRows}) = i

\* C16: duplicating a non-empty selection puts one copy per selected record
\* first, the copies in the order of their originals and equal to them in
\* every field but the id, followed by the whole previous collection; the
\* length grows by the number of selected records of the store.
C16_DuplicateManyPrependsCopies ==
  [][ (selectedRows # {}
       /\ \E t \in 0..MaxTime, random \in Randoms : HandleDuplicateSelected(random, t))
      => LET n == Cardinality({k \in 1..Len(data) : data[k].id \in selectedRows})
         IN /\ Len(data') = Len(data) + n
            /\ SubSeq(data', n + 1, Len(data')) = data
            /\ \A i \in 1..n : data'[i].cells = data[NthSelected(i)].cells ]_vars

\* two different records were copied: the copies stand first, in the order
\* of their originals and under ids of their own
C16_Witness ==
  /\ Len(data) = 2 * MutateRows
  /\ \A i \in 1..MutateRows :
        /\ data[i].cells = data[i + MutateRows].cells
        /\ data[i].id # data[i + MutateRows].id
  /\ data[1].cells # data[2].cells

\* C17: right after a confirmed delete of the selection, and right after a
\* duplication of the selection, the selection is empty.
C17_BulkOperationsClearSelection ==
  [][ (selectedRows # {}
       /\ \/ HandleDeleteSelected(TRUE)
          \/ \E t \in 0..MaxTime, random \in Randoms : HandleDuplicateSelected(random, t))
      => selectedRows' = {} ]_vars

\* one record of the upload was deleted and no id is selected
C17_Witness ==
  /\ Len(data) = MutateRows - 1
  /\ selectedRows = {}
  /\ ~isModalOpen
\* the Math.random() values of the copies of a selection sel of the store
RandomsFor(sel) == [1..Len(SelectedOf(data, sel)) -> 0..MaxFrac]

\* C18: for every collection and every non-empty selection, duplicating the
\* selection and then deleting exactly the ids of the new copies gives back
\* the original collection, in content and order.
C18_DuplicateThenDeleteRestores ==
  Mounted(data)
  => \A sel \in (SUBSET RowIds(data)) \ {{}} :
       \A t \in Clock, random \in RandomsFor(sel) :
         LET duplicates == Duplicates(SelectedOf(data, sel), t, random)
         IN WithoutSelected(duplicates \o data, RowIds(duplicates)) = data
\* the records of a store that the filter on screen hides, in stored order
HiddenOf(d) ==
  LET IsHidden(row) == ~RowMatches(row, headers, searchTerm) IN SelectSeq(d, IsHidden)

\* the hidden records whose id is not selected
HiddenUnselectedOf(d) ==
  LET Keep(row) == ~RowMatches(row, headers, searchTerm) /\ row.id \notin selectedRows
  IN SelectSeq(d, Keep)

\* C19: every mutation is computed from the whole store, whatever filter
\* and sort are on screen: adding a row or copies leaves the previous store
\* behind them, saving an edit leaves every hidden record where it is,
\* deleting a row of the page leaves the hidden records as they are, and
\* deleting the selection leaves the hidden records that are not selected.
C19_MutationsKeepHiddenRecords ==
  /\ (Mounted(data) /\ isModalOpen /\ isNewRow)
       => Tail(SavedData(data, formData, isNewRow)) = data
  /\ (Mounted(data) /\ isModalOpen /\ ~isNewRow)
       => \A i \in 1..Len(data) :
            ~RowMatches(data[i], headers, searchTerm)
              => SavedData(data, formData, isNewRow)[i] = data[i]
  /\ TableUsable
       => /\ \A row \in VisibleRows : HiddenOf(WithoutRow(data, row.id)) = HiddenOf(data)
          /\ HiddenUnselectedOf(WithoutSelected(data, selectedRows))
               = HiddenUnselectedOf(data)
          /\ \A t \in Clock, random \in Randoms :
               LET n == Len(SelectedOf(data, selectedRows))
                   after == Duplicates(SelectedOf(data, selectedRows), t, random) \o data
               IN SubSeq(after, n + 1, Len(after)) = data
\* a step of one of the handlers that write the store through onDataChange
MutationStep ==
  \/ HandleSaveRow
  \/ selectedRows # {} /\ HandleDeleteSelected(TRUE)
  \/ selectedRows # {}
       /\ \E t \in 0..MaxTime, random \in Randoms : HandleDuplicateSelected(random, t)
  \/ \E row \in VisibleRows : HandleDeleteRow(row.id, TRUE)

\* C20: whenever the statistics exist, their row count is the number of
\* records in the store, after an upload and after every mutation; a
\* mutation leaves the column count and the file size as they were.
C20_RowCountTracksStore ==
  [][ /\ stats' # NoStats => stats'.rowCount = Len(data')
      /\ MutationStep
           => /\ stats # NoStats /\ stats' # NoStats
              /\ stats'.columnCount = stats.columnCount
              /\ stats'.fileSize = stats.fileSize ]_vars

\* the store holds more rows than any upload brought, and the statistics
\* count them
C20_Witness ==
  /\ stats # NoStats
  /\ Len(data) > MaxRows
  /\ stats.rowCount = Len(data)
  /\ stats.columnCount = Len(headers)
  /\ Len(headers) > 0
(***************************************************************************)
(* Properties of ingestion, clearing and export.                           *)
(***************************************************************************)
\* the source field of a raw row that feeds a target column
SourceOf(item, h) ==
  CASE h = "CHALLAN_NO" -> item.ChallanNumber
    [] h = "A_BANCD" -> item.BankCode
    [] h = "A_BANKL" -> item.BranchCode
    [] h = "CHALL_DATE" -> item.Date
    [] h = "ACCOUNT_CODE" -> item.AccountCode
    [] h = "CHAN_AMT" -> item.Amount
    [] OTHER -> item.Notes

\* C21: after a successful ingestion every record has a defined value in
\* each of the seven target columns: an absent source field gives the empty
\* string ("0" for CHAN_AMT), and CHALLAN_NO and NOTES hold at most the
\* first 11 and 255 characters of their source.
C21_IngestedColumnsDefined ==
  \A i \in 1..Len(data) :
    \A item \in FilterItems :
      data[i] = TransformItem(item, i - 1, 0)
      => /\ \A h \in HeaderSet : ~IsNullish(data[i].cells[h])
         /\ \A h \in HeaderSet :
              IsNullish(SourceOf(item, h))
                => data[i].cells[h] = IF h = "CHAN_AMT" THEN Str(<<"0">>) ELSE Str(<<>>)
         /\ Len(data[i].cells["CHALLAN_NO"].s) <= CHALLAN_NO_MAX
         /\ Len(data[i].cells["NOTES"].s) <= NOTES_MAX
\* a step of an upload that parses
UploadStep ==
  \E rawData \in Files, size \in FileSizes, t \in 0..MaxTime :
    HandleFileUpload(rawData, size, t)

\* C22, as stated: while the statistics of a successful ingestion stand,
\* whatever rows the source yielded, also none, the header list is exactly
\* the seven target columns in their order.
C22_HeadersAlwaysFixed ==
  stats # NoStats => headers = HEADERS

\* C22, amended: a successful ingestion of at least one row leaves exactly
\* the seven target columns in their order as the header list, without id
\* and underscore fields; an ingestion of zero rows leaves the empty list;
\* no add, edit, delete or duplicate changes the header list.
C22_HeadersFixedForRows ==
  [][ /\ UploadStep => headers' = IF Len(data') > 0 THEN HEADERS ELSE <<>>
      /\ MutationStep => headers' = headers ]_vars

\* rows were added to an uploaded sheet, and the header list is the seven
\* target columns
C22_Witness ==
  /\ stats # NoStats
  /\ Len(data) > MaxRows
  /\ headers = HEADERS
\* C23: when the parser answers with an error after a dataset was loaded,
\* the resulting state holds an error message and nothing of the previous
\* dataset: store and header list are empty, the statistics are null and
\* the file name of the previous file is cleared.
C23_FailureClearsPreviousDataset ==
  [][ (fileName # NoFileName /\ \E message \in ErrorMessages : UploadFails(message))
      => /\ error' # NoError
         /\ data' = <<>>
         /\ headers' = <<>>
         /\ stats' = NoStats
         /\ fileName' = NoFileName ]_vars
\* C24: the clear action leaves the store and the header list empty and
\* error, file name and statistics null, and when a dataset is next loaded
\* the table starts with its initial filter text, sort state, selection,
\* page and page size.
C24_ClearResetsEverything ==
  [][ /\ HandleClear
           => /\ data' = <<>> /\ headers' = <<>>
              /\ error' = NoError /\ fileName' = NoFileName /\ stats' = NoStats
      /\ (~Mounted(data) /\ Mounted(data'))
           => /\ searchTerm' = <<>>
              /\ sortConfig' = [key |-> NoKey, direction |-> "asc"]
              /\ selectedRows' = {}
              /\ currentPage' = 1
              /\ itemsPerPage' = 10 ]_vars

\* a file was loaded after the start and cleared again
C24_Witness ==
  /\ now > 0
  /\ data = <<>> /\ headers = <<>>
  /\ fileName = NoFileName /\ error = NoError /\ stats = NoStats
\* what a step of the parser's answer, and a step that starts an upload,
\* must look like
AnswerSettles ==
  /\ (loading /\ ParserAnswers)
       => /\ ~loading'
          /\ \/ /\ error' = NoError
                /\ \E rawData \in UploadFiles, t \in 0..MaxTime :
                     data' = TransformedData(rawData, t)
             \/ error' # NoError /\ data' = <<>>
  /\ StartUpload => (~loading /\ loading')

\* C27: once an upload has started, and provided the parser eventually
\* answers, loading becomes false again; the answer leaves either no error
\* and the complete parsed collection as the store, whatever edits were
\* made to the previous table meanwhile, or an error and an empty store; no
\* upload starts while loading is true.
C27_UploadSettles ==
  (loading ~> ~loading) /\ [][AnswerSettles]_vars

\* an upload was answered with the rows of the large sheet while a selection
\* made in the previous table stood
C27_Witness ==
  /\ ~loading
  /\ error = NoError
  /\ Len(data) = NavigateRows
  /\ selectedRows # {}
  /\ \A i \in 1..Len(data) : data[i].id \notin selectedRows
\* C30: whenever an error message is set, the store and the header list
\* are empty, so no table is shown beside an error; the start of an upload
\* and the clear action reset the error to null.
C30_ErrorShowsNoTable ==
  [][ /\ error' # NoError => (data' = <<>> /\ headers' = <<>>)
      /\ (StartUpload \/ HandleClear) => error' = NoError ]_vars

\* a failed upload: the message is shown, the store is empty, and the name
\* of an earlier file is still there
C30_Witness ==
  /\ error \in ErrorMessages
  /\ ~loading
  /\ data = <<>>
  /\ fileName # NoFileName
\* C28: after a click on a column header, which changes the sort column or
\* the direction, the current page is 1.
C28_SortResetsPage ==
  [][ (\E header \in HeaderSet : HandleSort(header)) => currentPage' = 1 ]_vars
\* C29: in every reachable state every selected id is the id of a record of
\* the store, also after a selected record was deleted by its row button
\* and after a second file was loaded over the first.
C29_SelectionWithinStore ==
  selectedRows \subseteq RowIds(data)

\* the text a cell value is written as, and the same text as a CSV field:
\* wrapped in double quotes, with each double quote doubled, exactly when
\* it holds a comma or a double quote
RECURSIVE Separated(_, _)
Separated(parts, separator) ==
  IF Len(parts) = 0 THEN <<>>
  ELSE IF Len(parts) = 1 THEN parts[1]
  ELSE parts[1] \o separator \o Separated(Tail(parts), separator)

TextOf(value) == IF value.t = "undef" THEN <<>> ELSE JsString(value)

FieldOf(value) ==
  LET text == TextOf(value)
  IN IF \E i \in 1..Len(text) : text[i] \in {",", "\""}
     THEN <<"\"">>
            \o Separated([i \in 1..Len(text) |->
                            IF text[i] = "\"" THEN <<"\"", "\"">> ELSE <<text[i]>>],
                         <<>>)
            \o <<"\"">>
     ELSE text

\* the CSV text of a collection under a list of columns
CsvOf(d, columns) ==
  Separated(
    <<Separated([j \in 1..Len(columns) |-> <<columns[j]>>], <<",">>)>>
      \o [i \in 1..Len(d) |->
            Separated([j \in 1..Len(columns) |-> FieldOf(d[i].cells[columns[j]])],
                      <<",">>)],
    <<"\n">>)

ExampleRecord ==
  [id |-> Id(0, 0),
   cells |-> [h \in {"CHALLAN_NO", "NOTES"} |->
                IF h = "CHALLAN_NO" THEN Str(<<"A", "B", ",", "1", "2">>)
                ELSE Str(<<"H", "e", " ", "s", "a", "i", "d", " ",
                           "\"", "h", "i", "\"">>)]]

\* C25: the CSV export of a non-empty collection is the line of the column
\* names joined by commas, then one line per record, in the order of the
\* collection, of its values in the same column order, a value being
\* wrapped in double quotes with its double quotes doubled exactly when it
\* holds a comma or a double quote; the record {CHALLAN_NO: AB,12,
\* NOTES: He said "hi"} gives the row "AB,12","He said ""hi"""; the export
\* of the empty collection gives an alert and no file.
C25_CsvQuotesFields ==
  exported # NoFile =>
    /\ Len(data) = 0 => exported = [alert |-> "No data to export"]
    /\ Len(data) > 0 =>
         /\ DOMAIN exported = {"filename", "content"}
         /\ exported.content = CsvOf(data, <<"CHALLAN_NO", "NOTES">>)
    /\ data = <<ExampleRecord>> =>
         exported.content =
           <<"CHALLAN_NO", ",", "NOTES", "\n",
             "\"", "A", "B", ",", "1", "2", "\"", ",",
             "\"", "H", "e", " ", "s", "a", "i", "d", " ",
             "\"", "\"", "h", "i", "\"", "\"", "\"">>

C25_Witness ==
  /\ data = <<ExampleRecord>>
  /\ exported # NoFile
  /\ Includes(exported.content, <<"\"", "\"", "h", "i", "\"", "\"", "\"">>)

\* C26: id is no column of the table and no sort key, a row passes the
\* filter only by the text of one of its seven columns, and an export holds
\* every record of the store, in the order of the store, with the seven
\* columns and no id, whatever the filter text, the sort, the page and the
\* selection are.
C26_IdStaysInternal ==
  /\ \A i \in 1..Len(headers) : headers[i] # "id"
  /\ sortConfig.key \in HeaderSet \cup {NoKey}
  /\ Len(searchTerm) > 0 =>
       \A e \in Engines : \A i \in 1..Len(displayData(e)) :
         \E h \in HeaderSet :
           Includes(ToLowerCase(TextOf(displayData(e)[i].cells[h])),
                    ToLowerCase(searchTerm))
  /\ "content" \in DOMAIN exported => exported.content = CsvOf(data, HEADERS)
  /\ "sheet" \in DOMAIN exported =>
       /\ Len(exported.sheet) = Len(data)
       /\ \A i \in 1..Len(data) :
            /\ DOMAIN exported.sheet[i] = HeaderSet
            /\ \A h \in HeaderSet :
                 \/ exported.sheet[i][h] = data[i].cells[h]
                 \/ Includes(TextOf(data[i].cells[h]), <<"/">>)

C26_Witness ==
  /\ "content" \in DOMAIN exported
  /\ Len(searchTerm) > 0
  /\ Len(FilteredData(data, headers, searchTerm)) < Len(data)
  /\ sortConfig.key # NoKey
  /\ selectedRows # {}
====
